---- MODULE Spec2Model ----
(***************************************************************************)
(* The optimistic-mutation lifecycle of the Pets page.                     *)
(*                                                                         *)
(* The page (Pets.js) issues the createPet mutation through the Apollo     *)
(* client with an `update` function that prepends the new pet to the       *)
(* cached result of GET_PETS, and with an `optimisticResponse` whose id is *)
(* a random number.  The client keeps the optimistic result apart from     *)
(* the canonical cache, in a layer of its own per mutation, shows it to    *)
(* the active queries, and on the server's answer drops the layer and      *)
(* writes the real result (README, "Optimistic mutation lifecycle").       *)
(***************************************************************************)
EXTENDS Integers, Sequences, FiniteSets

\* Number of createpet calls followed (mutation sequence numbers 1..MaxMut).
MaxMut == 2
\* Ids are 0..MaxId: stands for the range of Math.floor(Math.random() * 1000)
\* and of the ids the server hands out.
MaxId == 2

Seqs == 1..MaxMut
Ids == 0..MaxId

\* What the NewPetModal form submits: input.name and input.type.
Inputs == { [name |-> "Rex", type |-> "DOG"] }

\* img values: the optimistic placeholder URL and a URL the server sends.
Placeholder == "https://via.placeholder.com/300"
Imgs == { Placeholder, "server.jpg" }

\* The absent pet (a cache miss, an unset optional field).
Null == [id |-> -1, name |-> "", type |-> "", img |-> ""]

VARIABLES
    entities,   \* canonical cache: id -> the Pet:<id> record, or Null
    pets,       \* canonical cache: ROOT_QUERY.pets, a list of ids
    overlay,    \* optimistic layers: sequence number -> optimistic Pet, or Null
    status,     \* sequence number -> "idle" | "pending" | "committed" | "rejected"
    mutation,   \* sequence number -> [variables, optimisticResponse, result]
    data,       \* data.pets of useQuery(GET_PETS) as last delivered to the page
    notified,   \* sequence number -> times the GET_PETS observer was notified for it
    updateRuns, \* sequence number -> times `update` ran on the canonical cache
    updateSaw,  \* sequence number -> what the cache held when `update` ran at commit
    preData,    \* sequence number -> data.pets when the mutation was invoked
    optData,    \* sequence number -> data.pets delivered with its optimistic notification
    alone,      \* sequence number -> no other mutation moved since it was invoked
    \* The page of client.js, which refetches GET_PETS instead:
    server,     \* the pets the server holds
    query,      \* the GET_PETS request in flight: [state, result]
    create,     \* the createPet request in flight: [state, input, result]
    pageData,   \* data.pets of useQuery(GET_PETS)
    loading,    \* loading of useQuery(GET_PETS)
    error,      \* error of useQuery(GET_PETS)
    createdPet, \* [loading, error] of useMutation(CREATE_PET)
    modal,      \* the modal state of the page
    submits     \* onSubmit calls so far

optimisticVars == << entities, pets, overlay, status, mutation, data, notified,
                     updateRuns, updateSaw, preData, optData, alone >>

refetchVars == << server, query, create, pageData, loading, error, createdPet,
                  modal, submits >>

vars == << optimisticVars, refetchVars >>

NoSaw == [ran |-> FALSE, keys |-> {}, layers |-> {}]
NoInput == [name |-> "", type |-> ""]
NoMutation == [variables |-> NoInput, optimisticResponse |-> Null, result |-> Null]

\* An error value of a hook that is undefined, and the ApolloError of a failed request.
Undefined == [defined |-> FALSE, message |-> ""]
NetworkError == [defined |-> TRUE, message |-> "Network error: Failed to fetch"]
NoRequest == [state |-> "idle", input |-> NoInput, result |-> Null]
NoQuery == [state |-> "idle", result |-> <<>>]

\* The page of client.js is not mounted.
RefetchPageUnused ==
    /\ server = <<>>
    /\ query = NoQuery
    /\ create = NoRequest
    /\ pageData = <<>>
    /\ loading = FALSE
    /\ error = Undefined
    /\ createdPet = [loading |-> FALSE, error |-> Undefined]
    /\ modal = FALSE
    /\ submits = 0

----------------------------------------------------------------------------
(* The cache, as the mutation's result processing sees it: the entity
   records and the list behind GET_PETS. *)

\* cache.write of a mutation result: the addPet object is normalised into
\* the Pet:<id> record (every field of the selection is overwritten).
writeResult(cache, addPet) ==
    [cache EXCEPT !.ents[addPet.id] = addPet]

\* A bug: update leaves the list as it read it.
update_NoPrepend(cache, addPet) ==
    cache

\* update(cache, { data: { addPet } }): readQuery GET_PETS, then writeQuery
\* with addPet in front of the pets read.
update(cache, addPet) ==
    LET read == cache.list
    IN  [ents |-> [cache.ents EXCEPT ![addPet.id] = addPet],
         list |-> <<addPet.id>> \o read]

\* The client's handling of a mutation result: the result is saved into the
\* cache before the update function runs.
markMutationResult(cache, addPet) ==
    update(writeResult(cache, addPet), addPet)

\* optimisticResponse.addPet of onSubmit; rnd is Math.floor(Math.random() * 1000).
optimisticResponse(input, rnd) ==
    [id |-> rnd, name |-> input.name, type |-> input.type, img |-> Placeholder]

\* A bug: the optimistic layer is left in place.
removeOptimistic_Keep(ov, m) ==
    ov

\* The cache removes the optimistic version stored for mutation m.
removeOptimistic(ov, m) ==
    [ov EXCEPT ![m] = Null]

RECURSIVE ApplyLayers_CanonicalWins(_, _, _)
\* A bug: a layer is skipped once the canonical cache holds a record for its key.
ApplyLayers_CanonicalWins(ov, cache, m) ==
    IF m > MaxMut THEN cache
    ELSE ApplyLayers_CanonicalWins(ov,
                     IF ov[m] = Null \/ cache.ents[ov[m].id] # Null THEN cache
                     ELSE markMutationResult(cache, ov[m]),
                     m + 1)

RECURSIVE ApplyLayers(_, _, _)
\* The optimistic view of the cache: every layer still present, in sequence
\* order, processed as a result on top of the canonical data.
ApplyLayers(ov, cache, m) ==
    IF m > MaxMut THEN cache
    ELSE ApplyLayers(ov,
                     IF ov[m] = Null THEN cache
                     ELSE markMutationResult(cache, ov[m]),
                     m + 1)

Optimistic(ents, list, ov) ==
    ApplyLayers(ov, [ents |-> ents, list |-> list], 1)

\* A bug: the query result is built from the canonical cache alone.
Materialize_Canonical(ents, list, ov) ==
    [i \in 1..Len(list) |-> ents[list[i]]]

\* The result of GET_PETS delivered to an active query: the list's
\* references resolved against the optimistic view.
Materialize(ents, list, ov) ==
    LET c == Optimistic(ents, list, ov)
    IN  [i \in 1..Len(c.list) |-> c.ents[c.list[i]]]

\* A read of Pet:<k>: the optimistic version while one is stored.
Read(k) == Optimistic(entities, pets, overlay).ents[k]

\* The layer a read of Pet:<k> is answered from (0: the canonical record).
ReadSrc(k) ==
    LET holders == { m \in Seqs : overlay[m] # Null /\ overlay[m].id = k }
    IN  IF holders = {} THEN 0
        ELSE CHOOSE m \in holders : \A n \in holders : n <= m

\* The next sequence number: mutations are numbered in the order of the calls.
NextSeq == 1 + Cardinality({ m \in Seqs : status[m] # "idle" })

\* Every other mutation in flight has seen one more mutation move.
Disturb(m) == [n \in Seqs |-> IF n = m THEN alone[n] ELSE FALSE]

----------------------------------------------------------------------------
\* The page has loaded GET_PETS: the cache holds the server's pets.
InitialPets == { <<>>, <<0>> }

Init ==
    /\ pets \in InitialPets
    /\ entities = [k \in Ids |->
                     IF \E i \in 1..Len(pets) : pets[i] = k
                     THEN [id |-> k, name |-> "Old", type |-> "DOG", img |-> "server.jpg"]
                     ELSE Null]
    /\ overlay = [m \in Seqs |-> Null]
    /\ status = [m \in Seqs |-> "idle"]
    /\ mutation = [m \in Seqs |-> NoMutation]
    /\ data = Materialize(entities, pets, overlay)
    /\ notified = [m \in Seqs |-> 0]
    /\ updateRuns = [m \in Seqs |-> 0]
    /\ updateSaw = [m \in Seqs |-> NoSaw]
    /\ preData = [m \in Seqs |-> <<>>]
    /\ optData = [m \in Seqs |-> <<>>]
    /\ alone = [m \in Seqs |-> TRUE]
    /\ RefetchPageUnused

\* A bug: the optimistic pet is written into the canonical cache.
OnSubmit_Canonical(input, rnd) ==
    LET m == NextSeq
        opt == optimisticResponse(input, rnd)
    IN  /\ m \in Seqs
        /\ status' = [status EXCEPT ![m] = "pending"]
        /\ mutation' = [mutation EXCEPT ![m] =
                          [variables |-> input, optimisticResponse |-> opt, result |-> Null]]
        /\ overlay' = [overlay EXCEPT ![m] = opt]
        /\ entities' = [entities EXCEPT ![opt.id] = opt]
        /\ data' = Materialize(entities', pets, overlay')
        /\ notified' = [notified EXCEPT ![m] = @ + 1]
        /\ preData' = [preData EXCEPT ![m] = data]
        /\ optData' = [optData EXCEPT ![m] = data']
        /\ alone' = Disturb(m)
        /\ UNCHANGED << pets, updateRuns, updateSaw >>

\* onSubmit of the optimistic page: createpet with variables and an
\* optimisticResponse.  The client stores the optimistic pet in a layer of
\* its own and notifies the active queries.
OnSubmit(input, rnd) ==
    LET m == NextSeq
        opt == optimisticResponse(input, rnd)
    IN  /\ m \in Seqs
        /\ status' = [status EXCEPT ![m] = "pending"]
        /\ mutation' = [mutation EXCEPT ![m] =
                          [variables |-> input, optimisticResponse |-> opt, result |-> Null]]
        /\ overlay' = [overlay EXCEPT ![m] = opt]
        /\ data' = Materialize(entities, pets, overlay')
        /\ notified' = [notified EXCEPT ![m] = @ + 1]
        /\ preData' = [preData EXCEPT ![m] = data]
        /\ optData' = [optData EXCEPT ![m] = data']
        /\ alone' = Disturb(m)
        /\ UNCHANGED << entities, pets, updateRuns, updateSaw >>

\* onSubmit without an optimisticResponse: the mutation is sent and nothing
\* is shown until the server answers.
OnSubmitPlain(input) ==
    LET m == NextSeq
    IN  /\ m \in Seqs
        /\ status' = [status EXCEPT ![m] = "pending"]
        /\ mutation' = [mutation EXCEPT ![m] =
                          [variables |-> input, optimisticResponse |-> Null, result |-> Null]]
        /\ preData' = [preData EXCEPT ![m] = data]
        /\ alone' = Disturb(m)
        /\ UNCHANGED << entities, pets, overlay, data, notified, updateRuns, updateSaw,
                        optData >>

\* What the server answers to createPet: the pet under an id of its own
\* choosing, one no cached pet has.
ServerPets(m) ==
    { [id |-> sid, name |-> mutation[m].variables.name,
       type |-> mutation[m].variables.type, img |-> img] :
        sid \in { k \in Ids : entities[k] = Null }, img \in Imgs }

\* A bug: update runs before the result is saved and the layer dropped.
CommitSteps_UpdateFirst(m, addPet) ==
    LET canon == [ents |-> entities, list |-> pets]
        updated == update(canon, addPet)
    IN  [layers |-> removeOptimistic(overlay, m),
         saw |-> [ran |-> TRUE,
                  keys |-> { k \in Ids : canon.ents[k] # Null },
                  layers |-> { n \in Seqs : overlay[n] # Null }],
         cache |-> writeResult(updated, addPet)]

\* A bug: the server's pet is saved under the key of the optimistic pet.
CommitSteps_TempKey(m, addPet) ==
    LET removed == removeOptimistic(overlay, m)
        key == IF overlay[m] = Null THEN addPet.id ELSE overlay[m].id
        canon == [ents |-> entities, list |-> pets]
        written == [canon EXCEPT !.ents[key] = addPet]
    IN  [layers |-> removed,
         saw |-> [ran |-> TRUE,
                  keys |-> { k \in Ids : written.ents[k] # Null },
                  layers |-> { n \in Seqs : removed[n] # Null }],
         cache |-> update(written, addPet)]

\* The steps of a commit, in order: the optimistic version is removed, the
\* server's pet overwrites the canonical record, then update runs on that.
CommitSteps(m, addPet) ==
    LET removed == removeOptimistic(overlay, m)
        written == writeResult([ents |-> entities, list |-> pets], addPet)
    IN  [layers |-> removed,
         saw |-> [ran |-> TRUE,
                  keys |-> { k \in Ids : written.ents[k] # Null },
                  layers |-> { n \in Seqs : removed[n] # Null }],
         cache |-> update(written, addPet)]

\* A bug: the observers are not notified after the commit.
CommitNotify_Skip(m) ==
    notified

\* A bug: the canonical write and the update each notify the observers.
CommitNotify_Twice(m) ==
    [notified EXCEPT ![m] = @ + 2]

\* The affected queries are notified again, once, after the commit.
CommitNotify(m) ==
    [notified EXCEPT ![m] = @ + 1]

\* The server answers mutation m with addPet.
Commit(m, addPet) ==
    LET s == CommitSteps(m, addPet)
    IN  /\ status[m] = "pending"
        /\ status' = [status EXCEPT ![m] = "committed"]
        /\ mutation' = [mutation EXCEPT ![m].result = addPet]
        /\ overlay' = s.layers
        /\ entities' = s.cache.ents
        /\ pets' = s.cache.list
        /\ updateSaw' = [updateSaw EXCEPT ![m] = s.saw]
        /\ updateRuns' = [updateRuns EXCEPT ![m] = @ + 1]
        /\ data' = Materialize(entities', pets', overlay')
        /\ notified' = CommitNotify(m)
        /\ alone' = Disturb(m)
        /\ UNCHANGED << preData, optData >>

\* The request of mutation m fails: the optimistic version is removed, the
\* canonical cache is left alone and update does not run.
Reject(m) ==
    /\ status[m] = "pending"
    /\ status' = [status EXCEPT ![m] = "rejected"]
    /\ overlay' = removeOptimistic(overlay, m)
    /\ data' = Materialize(entities, pets, overlay')
    /\ notified' = [notified EXCEPT ![m] = @ + 1]
    /\ alone' = Disturb(m)
    /\ UNCHANGED << entities, pets, mutation, updateRuns, updateSaw, preData, optData >>

Next ==
    \/ \E input \in Inputs, rnd \in Ids : OnSubmit(input, rnd) /\ UNCHANGED refetchVars
    \/ \E input \in Inputs : OnSubmitPlain(input) /\ UNCHANGED refetchVars
    \/ \E m \in Seqs : \E addPet \in ServerPets(m) :
          Commit(m, addPet) /\ UNCHANGED refetchVars
    \/ \E m \in Seqs : Reject(m) /\ UNCHANGED refetchVars

Spec == Init /\ [][Next]_vars

----------------------------------------------------------------------------
(* The page of client.js: createpet without update or optimisticResponse,
   and a refetch of GET_PETS called in the same onSubmit. *)

\* The text a template literal builds, as its parts; reading .message of an
\* undefined error throws a TypeError.
ErrorText(e1, e2) ==
    IF ~e1.defined \/ ~e2.defined
    THEN [kind |-> "TypeError", text |-> <<>>, pets |-> <<>>]
    ELSE [kind |-> "text", text |-> <<"Error! ", e1.message, " $", e2.message>>,
          pets |-> <<>>]

\* What Pets returns: the Loader, the error text, the modal, or the page
\* with PetsList over data.pets.
Render ==
    IF loading \/ createdPet.loading
    THEN [kind |-> "Loader", text |-> <<>>, pets |-> <<>>]
    ELSE IF error.defined \/ createdPet.error.defined
    THEN ErrorText(error, createdPet.error)
    ELSE IF modal
    THEN [kind |-> "NewPetModal", text |-> <<>>, pets |-> <<>>]
    ELSE [kind |-> "page", text |-> <<>>, pets |-> pageData]

\* The page mounts: useQuery(GET_PETS) sends the query.
InitRefetch ==
    /\ pets = <<>>
    /\ entities = [k \in Ids |-> Null]
    /\ overlay = [m \in Seqs |-> Null]
    /\ status = [m \in Seqs |-> "idle"]
    /\ mutation = [m \in Seqs |-> NoMutation]
    /\ data = <<>>
    /\ notified = [m \in Seqs |-> 0]
    /\ updateRuns = [m \in Seqs |-> 0]
    /\ updateSaw = [m \in Seqs |-> NoSaw]
    /\ preData = [m \in Seqs |-> <<>>]
    /\ optData = [m \in Seqs |-> <<>>]
    /\ alone = [m \in Seqs |-> TRUE]
    /\ server \in { <<>>,
                    <<[id |-> 0, name |-> "Old", type |-> "DOG", img |-> "server.jpg"]>> }
    /\ query = [state |-> "sent", result |-> <<>>]
    /\ create = NoRequest
    /\ pageData = <<>>
    /\ loading = TRUE
    /\ error = Undefined
    /\ createdPet = [loading |-> FALSE, error |-> Undefined]
    /\ modal = FALSE
    /\ submits = 0

\* The "new pet" button: setModal(true).
OpenModal ==
    /\ Render.kind = "page"
    /\ modal' = TRUE
    /\ UNCHANGED << server, query, create, pageData, loading, error, createdPet, submits >>

\* onCancel of the modal: setModal(false).
CancelModal ==
    /\ Render.kind = "NewPetModal"
    /\ modal' = FALSE
    /\ UNCHANGED << server, query, create, pageData, loading, error, createdPet, submits >>

\* onSubmit: setModal(false), createpet({ variables }), refetch() -- both
\* requests leave in the same handler.  (Followed while no earlier refetch
\* is still in flight.)
RefetchOnSubmit(input) ==
    /\ Render.kind = "NewPetModal"
    /\ submits < MaxMut
    /\ query.state = "done"
    /\ modal' = FALSE
    /\ create' = [state |-> "sent", input |-> input, result |-> Null]
    /\ createdPet' = [loading |-> TRUE, error |-> Undefined]
    /\ query' = [state |-> "sent", result |-> <<>>]
    /\ submits' = submits + 1
    /\ UNCHANGED << server, pageData, loading, error >>

\* The server runs createPet: the pet gets an id no pet of the server has.
ServeCreate(sid) ==
    /\ create.state = "sent"
    /\ \A i \in DOMAIN server : server[i].id # sid
    /\ LET pet == [id |-> sid, name |-> create.input.name,
                    type |-> create.input.type, img |-> "server.jpg"]
       IN  /\ server' = Append(server, pet)
           /\ create' = [create EXCEPT !.state = "served", !.result = pet]
    /\ UNCHANGED << query, pageData, loading, error, createdPet, modal, submits >>

\* The server runs GET_PETS: the answer holds the pets it has now.
ServeQuery ==
    /\ query.state = "sent"
    /\ query' = [state |-> "served", result |-> server]
    /\ UNCHANGED << server, create, pageData, loading, error, createdPet, modal, submits >>

\* The answer of createPet arrives: createdPet holds the result; without an
\* update function the cached list of GET_PETS is not touched.
CreateAnswered ==
    /\ create.state = "served"
    /\ create' = [create EXCEPT !.state = "done"]
    /\ createdPet' = [loading |-> FALSE, error |-> Undefined]
    /\ UNCHANGED << server, query, pageData, loading, error, modal, submits >>

\* The createPet request fails: createdPet.error is set.
CreateFailed ==
    /\ create.state = "sent"
    /\ create' = [create EXCEPT !.state = "done"]
    /\ createdPet' = [loading |-> FALSE, error |-> NetworkError]
    /\ UNCHANGED << server, query, pageData, loading, error, modal, submits >>

\* The answer of GET_PETS arrives: data.pets is the list it carries.
QueryAnswered ==
    /\ query.state = "served"
    /\ query' = [query EXCEPT !.state = "done"]
    /\ pageData' = query.result
    /\ loading' = FALSE
    /\ error' = Undefined
    /\ UNCHANGED << server, create, createdPet, modal, submits >>

\* The GET_PETS request fails: error is set.
QueryFailed ==
    /\ query.state = "sent"
    /\ query' = [query EXCEPT !.state = "done"]
    /\ loading' = FALSE
    /\ error' = NetworkError
    /\ UNCHANGED << server, create, pageData, createdPet, modal, submits >>

NextRefetch ==
    \/ OpenModal /\ UNCHANGED optimisticVars
    \/ CancelModal /\ UNCHANGED optimisticVars
    \/ \E input \in Inputs : RefetchOnSubmit(input) /\ UNCHANGED optimisticVars
    \/ \E sid \in Ids : ServeCreate(sid) /\ UNCHANGED optimisticVars
    \/ ServeQuery /\ UNCHANGED optimisticVars
    \/ CreateAnswered /\ UNCHANGED optimisticVars
    \/ CreateFailed /\ UNCHANGED optimisticVars
    \/ QueryAnswered /\ UNCHANGED optimisticVars
    \/ QueryFailed /\ UNCHANGED optimisticVars

SpecRefetch == InitRefetch /\ [][NextRefetch]_vars

----------------------------------------------------------------------------
(* Steps of one mutation, read off its status. *)

Invoked(m) == status[m] = "idle" /\ status'[m] = "pending"
Committed(m) == status[m] = "pending" /\ status'[m] = "committed"
Rejected(m) == status[m] = "pending" /\ status'[m] = "rejected"
Resolved(m) == status[m] \in {"committed", "rejected"}

\* The optimistic pet of mutation m (Null: none was supplied).
Opt(m) == mutation[m].optimisticResponse

\* How many entries of a list of ids are k; how many pets of a result have id k.
CountIds(list, k) == Cardinality({ i \in DOMAIN list : list[i] = k })
CountPets(result, k) == Cardinality({ i \in DOMAIN result : result[i].id = k })

NoLayers == [m \in Seqs |-> Null]

----------------------------------------------------------------------------
\* C1: a createpet call with an optimisticResponse stores the optimistic pet
\* only in the layer of a fresh sequence number (above every number in use,
\* no other layer touched); that step and the mutation's rejection leave the
\* canonical records and the canonical list as they were, whatever the key
\* of the optimistic pet.
C1_OptimisticWriteOnlyOverlay ==
    [][\A m \in Seqs :
         /\ (Invoked(m) /\ Opt(m)' # Null) =>
               /\ overlay[m] = Null
               /\ overlay'[m] = Opt(m)'
               /\ \A n \in Seqs : n # m => overlay'[n] = overlay[n]
               /\ \A n \in Seqs : status[n] # "idle" => n < m
               /\ entities' = entities
               /\ pets' = pets
         /\ Rejected(m) => (entities' = entities /\ pets' = pets)
      ]_vars

\* C1 witness: an optimistic pet is stored under the key of a canonical
\* record, and the canonical record still holds its own values.
C1_Witness ==
    \E m \in Seqs :
        /\ overlay[m] # Null
        /\ entities[overlay[m].id] # Null
        /\ entities[overlay[m].id] # overlay[m]
        /\ entities[overlay[m].id].name = "Old"

C3_NoOverlayLeak ==
    /\ [](\A m \in Seqs :
            /\ Resolved(m) => overlay[m] = Null
            /\ overlay[m] # Null => status[m] = "pending")
    /\ [][\A m \in Seqs :
            Resolved(m) => (status'[m] = status[m] /\ overlay'[m] = Null)
         ]_vars

\* C3 witness: one optimistic mutation committed, another was rejected.
C3_Witness ==
    \E m, n \in Seqs :
        /\ status[m] = "committed" /\ Opt(m) # Null
        /\ status[n] = "rejected" /\ Opt(n) # Null
        /\ overlay[m] = Null /\ overlay[n] = Null

\* C4 as stated: when an optimistic mutation whose temporary id differs from
\* the server's id commits, the pets delivered hold exactly one entry with
\* the server's id and none with the temporary id.
C4_Original ==
    [][\A m \in Seqs :
         (Committed(m) /\ Opt(m) # Null /\ Opt(m).id # mutation'[m].result.id) =>
            /\ CountPets(data', mutation'[m].result.id) = 1
            /\ CountPets(data', Opt(m).id) = 0
      ]_vars

\* C4 amended: the commit puts the server's pet, once, at the head of the
\* canonical list and leaves the rest of the list as it was, so the list
\* holds the temporary id only as often as it did before the commit (a pet
\* the server already had under that id stays); with no other layer left the
\* pets delivered are the server's pet followed by the canonical pets of
\* before.
C4_CommitOneEntry ==
    [][\A m \in Seqs :
         (Committed(m) /\ Opt(m) # Null /\ Opt(m).id # mutation'[m].result.id) =>
            LET new == mutation'[m].result
            IN  /\ pets' = <<new.id>> \o pets
                /\ entities'[new.id] = new
                /\ CountIds(pets', new.id) = 1
                /\ CountIds(pets', Opt(m).id) = CountIds(pets, Opt(m).id)
                /\ overlay' = NoLayers =>
                      /\ data' = <<new>> \o Materialize(entities, pets, NoLayers)
                      /\ CountPets(data', new.id) = 1
                      /\ CountPets(data', Opt(m).id) = CountIds(pets, Opt(m).id)
      ]_vars

\* C4 witness: an optimistic mutation committed under a server id other than
\* its temporary id, the server's pet heads the pets delivered, and the
\* temporary id is that of a pet that was there before.
C4_Witness ==
    \E m \in Seqs :
        /\ status[m] = "committed" /\ Opt(m) # Null
        /\ Opt(m).id # mutation[m].result.id
        /\ overlay = NoLayers
        /\ Len(data) = 2
        /\ data[1] = mutation[m].result
        /\ data[2].id = Opt(m).id /\ data[2].name = "Old"

\* C5: the step that invokes a mutation with an optimisticResponse delivers
\* to the page a pets list that holds the optimistic pet, at its head, while
\* the mutation is pending and its result unknown.
C5_OptimisticShownAtOnce ==
    [][\A m \in Seqs :
         (Invoked(m) /\ Opt(m)' # Null) =>
            /\ mutation'[m].result = Null
            /\ Len(data') = Len(data) + 1
            /\ data'[1] = Opt(m)'
      ]_vars

\* C5 witness: a mutation is pending and the page shows its optimistic pet,
\* which the canonical cache does not hold.
C5_Witness ==
    \E m \in Seqs :
        /\ status[m] = "pending" /\ overlay[m] # Null
        /\ data # <<>> /\ data[1] = overlay[m]
        /\ entities[overlay[m].id] = Null
        /\ CountIds(pets, overlay[m].id) = 0

\* C6: when update ran for a committed mutation, the canonical cache already
\* held the record of the server's pet and the mutation's layer was gone.
C6_UpdateAfterCanonicalWrite ==
    \A m \in Seqs :
        status[m] = "committed" =>
            /\ updateSaw[m].ran
            /\ updateRuns[m] = 1
            /\ mutation[m].result.id \in updateSaw[m].keys
            /\ m \notin updateSaw[m].layers

\* C6 witness: an optimistic mutation committed while another layer was
\* still present when update ran.
C6_Witness ==
    \E m \in Seqs :
        /\ status[m] = "committed" /\ Opt(m) # Null
        /\ updateSaw[m].ran
        /\ updateSaw[m].layers # {}

\* C7: a committed mutation has notified the GET_PETS observer twice when it
\* had an optimisticResponse and once when it had none; its commit notifies
\* once.
C7_NotificationCount ==
    /\ [](\A m \in Seqs :
            status[m] = "committed" =>
                notified[m] = IF Opt(m) # Null THEN 2 ELSE 1)
    /\ [][\A m \in Seqs : Committed(m) => notified'[m] = notified[m] + 1]_vars

\* C7 witness: a mutation with an optimisticResponse and one without have
\* both committed.
C7_Witness ==
    \E m, n \in Seqs :
        /\ status[m] = "committed" /\ Opt(m) # Null /\ notified[m] = 2
        /\ status[n] = "committed" /\ Opt(n) = Null /\ notified[n] = 1

\* C8: while a layer holds a pet under key k, a read of k returns the pet of
\* the latest such layer, and so does every entry with id k of the pets
\* delivered to the page.
C8_ReadsPreferOverlay ==
    \A k \in Ids :
        ReadSrc(k) # 0 =>
            /\ Read(k) = overlay[ReadSrc(k)]
            /\ \A i \in DOMAIN data : data[i].id = k => data[i] = overlay[ReadSrc(k)]

\* C8 witness: a canonical record and a layer share a key, they differ, and
\* the pets delivered list that key.
C8_Witness ==
    \E k \in Ids :
        /\ ReadSrc(k) # 0
        /\ entities[k] # Null /\ entities[k] # overlay[ReadSrc(k)]
        /\ CountIds(pets, k) > 0
        /\ \E i \in DOMAIN data : data[i].id = k

\* C9: when mutation m1 is answered after a later mutation m2 has committed,
\* the removal of m1's layer leaves the canonical record of m2's pet at the
\* value m2 committed, and from then on no read is answered from m1's layer.
C9_RemovalKeepsLaterCommit ==
    /\ [][\A m1, m2 \in Seqs :
            (m1 < m2 /\ status[m2] = "committed" /\ Opt(m1) # Null /\ Opt(m2) # Null
               /\ status[m1] = "pending" /\ Resolved(m1)') =>
                /\ overlay'[m1] = Null
                /\ entities'[mutation[m2].result.id] = mutation[m2].result
                /\ \A k \in Ids : ReadSrc(k)' # m1
         ]_vars
    /\ [](\A m1 \in Seqs : Resolved(m1) => \A k \in Ids : ReadSrc(k) # m1)

\* C9 witness: m2 committed under the key of m1's optimistic pet, m1 was
\* answered afterwards, and the canonical record is m2's.
C9_Witness ==
    \E m1, m2 \in Seqs :
        /\ m1 < m2
        /\ status[m2] = "committed" /\ Resolved(m1)
        /\ Opt(m1) # Null /\ Opt(m2) # Null
        /\ Opt(m1).id = mutation[m2].result.id
        /\ mutation[m2].result # Opt(m1)
        /\ updateSaw[m2].ran /\ m1 \in updateSaw[m2].layers
        /\ entities[Opt(m1).id] = mutation[m2].result
        /\ Read(Opt(m1).id) = mutation[m2].result

\* C10 as stated: once a later mutation has committed a pet under the key of
\* the layer of an earlier, still pending mutation, a read of that key
\* returns the committed pet.
C10_Original ==
    \A m1, m2 \in Seqs :
        (m1 < m2 /\ status[m2] = "committed" /\ overlay[m1] # Null
           /\ overlay[m1].id = mutation[m2].result.id) =>
            Read(overlay[m1].id) = mutation[m2].result

\* C10 amended: in that case the canonical record of the key is the pet the
\* later mutation committed, while a read of the key, and every entry of
\* that key in the pets delivered, still return the optimistic pet of a
\* pending layer.
C10_CanonicalWinsOverlayShown ==
    \A m1, m2 \in Seqs :
        (m1 < m2 /\ status[m2] = "committed" /\ overlay[m1] # Null
           /\ overlay[m1].id = mutation[m2].result.id) =>
            LET k == overlay[m1].id
            IN  /\ entities[k] = mutation[m2].result
                /\ ReadSrc(k) # 0
                /\ status[ReadSrc(k)] = "pending"
                /\ Read(k) = overlay[ReadSrc(k)]
                /\ \E i \in DOMAIN data : data[i].id = k
                /\ \A i \in DOMAIN data : data[i].id = k => data[i] = overlay[ReadSrc(k)]

\* C10 witness: the later mutation committed under the key of the earlier
\* mutation's layer, and the pet read differs from the pet committed.
C10_Witness ==
    \E m1, m2 \in Seqs :
        /\ m1 < m2 /\ status[m2] = "committed" /\ overlay[m1] # Null
        /\ overlay[m1].id = mutation[m2].result.id
        /\ Opt(m2) # Null /\ Opt(m2).id = overlay[m1].id
        /\ entities[overlay[m1].id] = mutation[m2].result
        /\ Read(overlay[m1].id) = overlay[m1]
        /\ Read(overlay[m1].id) # mutation[m2].result

C13_RefetchShowsNewPet ==
    (/\ create.state = "done" /\ create.result # Null
     /\ query.state = "done" /\ ~error.defined) =>
        \E i \in DOMAIN pageData : pageData[i].id = create.result.id

\* C14: when render reaches the error guard with error or createdPet.error
\* set, it returns the error text and does not throw.
C14_ErrorGuardReturnsText ==
    ((error.defined \/ createdPet.error.defined) /\ ~(loading \/ createdPet.loading)) =>
        Render.kind = "text"

====
